---- MODULE Spec2Model ----
(***************************************************************************)
(* Model of src/location_service.py: the LocationService object (driver    *)
(* locations, delivery regions, transition callbacks, location_lock) and   *)
(* the threads that call update_location on it (Flask runs the service     *)
(* with threaded=True, one thread per request), the route of               *)
(* POST /location-update, and the query methods with their routes.         *)
(*                                                                         *)
(* Coordinates are integers in hundredths of a degree: every vertex of the *)
(* ten configured polygons is a whole number of hundredths.                *)
(***************************************************************************)
EXTENDS Integers, Sequences, FiniteSets, TLC

\* ------------------------------------------------------------- bounds
\* Caller-supplied and clock timestamps range over 1..MaxTime.
MaxTime == 2
\* At most MaxCallbacks callbacks are registered.
MaxCallbacks == 2

Drivers == {"d1", "d2"}
Threads == {"t1", "t2"}
Timestamps == 1..MaxTime
\* timestamp=None of update_location's signature.
NoTimestamp == 0
\* Optional[str] region: Python's None.
None == "None"
\* No thread holds location_lock.
NoThread == "free"
\* A driver_id that is not a string: the JSON array [1], a Python list.
UnhashableId == "[1]"

\* The coordinates the callers send, as <<latitude, longitude>>:
\*   inside philly_north only (the spec's scenario 1),
\*   far outside every region (the spec's scenario 2),
\*   inside philly_south and inside philly_west (the two overlap).
TestPoints == { <<3999, -7515>>, <<3950, -7450>>, <<3996, -7521>> }

\* What a registered callback does when it is called: return, or raise an
\* exception (a subclass of Exception).
CallbackKinds == {"returns", "raises"}

\* ------------------------------------------------------------ geometry
Min(S) == CHOOSE x \in S : \A y \in S : x <= y

Max(S) == CHOOSE x \in S : \A y \in S : x >= y

\* Variant: the point built as Point(latitude, longitude).
Point_swapped(longitude, latitude) == [x |-> latitude, y |-> longitude]

\* shapely Point(longitude, latitude): x is the longitude, y the latitude.
Point(longitude, latitude) == [x |-> longitude, y |-> latitude]

\* shapely Polygon(coordinates): the ring of [longitude, latitude] vertices.
Polygon(coordinates) == coordinates

\* Variant: the lower and left edges belong to the rectangle, the upper and
\* right edges do not.
Contains_half_open(polygon, point) ==
    LET xs == { polygon[i][1] : i \in 1..Len(polygon) }
        ys == { polygon[i][2] : i \in 1..Len(polygon) }
    IN  /\ Min(xs) <= point.x /\ point.x < Max(xs)
        /\ Min(ys) <= point.y /\ point.y < Max(ys)

\* shapely Polygon.contains(point): the point lies in the interior of the
\* polygon, a point of the boundary is not contained.  Every configured polygon
\* is an axis-aligned rectangle, whose interior is the open box between the
\* least and greatest vertex coordinates.
Contains(polygon, point) ==
    LET xs == { polygon[i][1] : i \in 1..Len(polygon) }
        ys == { polygon[i][2] : i \in 1..Len(polygon) }
    IN  /\ Min(xs) < point.x /\ point.x < Max(xs)
        /\ Min(ys) < point.y /\ point.y < Max(ys)

\* regions_data of _initialize_regions, in the dict's insertion order.
regions_data ==
    << [name |-> "philly_north",
        coordinates |-> << <<-7520, 3998>>, <<-7512, 3998>>, <<-7512, 4002>>, <<-7520, 4002>> >>],
       [name |-> "philly_south",
        coordinates |-> << <<-7522, 3992>>, <<-7514, 3992>>, <<-7514, 3998>>, <<-7522, 3998>> >>],
       [name |-> "philly_west",
        coordinates |-> << <<-7528, 3994>>, <<-7520, 3994>>, <<-7520, 4000>>, <<-7528, 4000>> >>],
       [name |-> "philly_northeast",
        coordinates |-> << <<-7512, 4002>>, <<-7504, 4002>>, <<-7504, 4008>>, <<-7512, 4008>> >>],
       [name |-> "jersey_camden",
        coordinates |-> << <<-7514, 3988>>, <<-7502, 3988>>, <<-7502, 3996>>, <<-7514, 3996>> >>],
       [name |-> "jersey_gloucester",
        coordinates |-> << <<-7520, 3978>>, <<-7508, 3978>>, <<-7508, 3988>>, <<-7520, 3988>> >>],
       [name |-> "jersey_burlington",
        coordinates |-> << <<-7498, 3980>>, <<-7470, 3980>>, <<-7470, 4010>>, <<-7498, 4010>> >>],
       [name |-> "delaware_county",
        coordinates |-> << <<-7540, 3982>>, <<-7522, 3982>>, <<-7522, 3998>>, <<-7540, 3998>> >>],
       [name |-> "montgomery_county",
        coordinates |-> << <<-7548, 4000>>, <<-7520, 4000>>, <<-7520, 4020>>, <<-7548, 4020>> >>],
       [name |-> "chester_county",
        coordinates |-> << <<-7580, 3980>>, <<-7540, 3980>>, <<-7540, 4010>>, <<-7580, 4010>> >>] >>

\* _initialize_regions: one DeliveryRegion per entry of regions_data, all active.
initialize_regions ==
    [ i \in 1..Len(regions_data) |->
        [name |-> regions_data[i].name,
         polygon |-> Polygon(regions_data[i].coordinates),
         is_active |-> TRUE] ]

\* ------------------------------------------------------------- state
VARIABLES
    driver_locations,             \* dict driver_id -> LocationUpdate
    delivery_regions,             \* dict region name -> DeliveryRegion, in insertion order
    region_transition_callbacks,  \* list of callbacks, each given by what it does
    location_lock,                \* the thread holding threading.Lock(), or NoThread
    pc,                           \* per thread: where it is in update_location
    location_update,              \* per thread: the LocationUpdate it created (0 or 1 element)
    old_location,                 \* per thread: what _check_region_transition read (0 or 1 element)
    idx,                          \* per thread: position of the for loop over the callbacks
    notified,                     \* per thread: the callback invocations of the current call
    loop_len,                     \* per thread: length of the callback list when the loop ended
    result,                       \* per thread: what update_location returned (0 or 1 element)
    request,                      \* per thread: the HTTP request it serves (0 or 1 element)
    response,                     \* per thread: the HTTP response it has built (0 or 1 element)
    query                         \* per thread: the frame of the query method it runs (0 or 1 element)

\* The state of the Flask routes and of the query methods.
route_vars == << request, response, query >>

vars == << driver_locations, delivery_regions, region_transition_callbacks, location_lock,
           pc, location_update, old_location, idx, notified, loop_len, result,
           request, response, query >>

\* Variant: once a driver is stored in a region, that region is reused.
detect_region_cached(latitude, longitude) ==
    LET point == Point(longitude, latitude)
        hits  == { i \in 1..Len(delivery_regions) :
                     /\ delivery_regions[i].is_active
                     /\ Contains(delivery_regions[i].polygon, point) }
        known == { d \in DOMAIN driver_locations : driver_locations[d].region # None }
    IN  IF known # {}
        THEN driver_locations[CHOOSE d \in known : TRUE].region
        ELSE IF hits = {} THEN None ELSE delivery_regions[Min(hits)].name

\* Variant: the is_active flag is not looked at.
detect_region_any_flag(latitude, longitude) ==
    LET point == Point(longitude, latitude)
        hits  == { i \in 1..Len(delivery_regions) :
                     Contains(delivery_regions[i].polygon, point) }
    IN  IF hits = {} THEN None ELSE delivery_regions[Min(hits)].name

\* _detect_region: the name of the first region, in insertion order, that is
\* active and whose polygon contains Point(longitude, latitude); None if none.
detect_region(latitude, longitude) ==
    LET point == Point(longitude, latitude)
        hits  == { i \in 1..Len(delivery_regions) :
                     /\ delivery_regions[i].is_active
                     /\ Contains(delivery_regions[i].polygon, point) }
    IN  IF hits = {} THEN None ELSE delivery_regions[Min(hits)].name

\* The LocationUpdate dataclass.
LocationUpdate(driver_id, latitude, longitude, timestamp, region) ==
    [driver_id |-> driver_id, latitude |-> latitude, longitude |-> longitude,
     timestamp |-> timestamp, region |-> region]

\* datetime.isoformat(): the timestamp as a string, not the datetime itself.
isoformat(timestamp) == << "iso", timestamp >>

\* The dict update_location returns.
success_result(loc) ==
    [status |-> "success", driver_id |-> loc.driver_id, region |-> loc.region,
     timestamp |-> isoformat(loc.timestamp),
     coordinates |-> [latitude |-> loc.latitude, longitude |-> loc.longitude]]

Init ==
    /\ driver_locations = << >>
    /\ delivery_regions = initialize_regions
    /\ region_transition_callbacks = << >>
    /\ location_lock = NoThread
    /\ pc = [t \in Threads |-> "idle"]
    /\ location_update = [t \in Threads |-> << >>]
    /\ old_location = [t \in Threads |-> << >>]
    /\ idx = [t \in Threads |-> 0]
    /\ notified = [t \in Threads |-> << >>]
    /\ loop_len = [t \in Threads |-> 0]
    /\ result = [t \in Threads |-> << >>]
    /\ request = [t \in Threads |-> << >>]
    /\ response = [t \in Threads |-> << >>]
    /\ query = [t \in Threads |-> << >>]

\* ------------------------------------------------- add_region_transition_callback
\* self.region_transition_callbacks.append(callback). It takes no lock, so it
\* may run while another thread is inside update_location.
add_region_transition_callback(callback) ==
    /\ Len(region_transition_callbacks) < MaxCallbacks
    /\ region_transition_callbacks' = Append(region_transition_callbacks, callback)
    /\ UNCHANGED << driver_locations, delivery_regions, location_lock, pc, location_update,
                    old_location, idx, notified, loop_len, result >>
    /\ UNCHANGED route_vars

\* ------------------------------------------------------------ update_location
\* timestamp = datetime.datetime.now(pytz.UTC): whatever the clock reads.
now == Timestamps

\* Lines 184-197: default the timestamp, detect the region (outside the lock),
\* build the LocationUpdate.
update_location_begin(t, driver_id, latitude, longitude, timestamp) ==
    /\ pc[t] = "idle"
    /\ \E ts \in (IF timestamp = NoTimestamp THEN now ELSE {timestamp}) :
         location_update' = [location_update EXCEPT ![t] =
             << LocationUpdate(driver_id, latitude, longitude, ts,
                               detect_region(latitude, longitude)) >>]
    /\ pc' = [pc EXCEPT ![t] = "lock"]
    /\ UNCHANGED << driver_locations, delivery_regions, region_transition_callbacks,
                    location_lock, old_location, idx, notified, loop_len, result >>
    /\ UNCHANGED route_vars

\* Variant: no mutual exclusion, the with block is entered at once.
lock_free_always == TRUE

\* threading.Lock.acquire(): only a free lock can be taken.
lock_free == location_lock = NoThread

\* Variant: the stored LocationUpdate object is compared with the new one,
\* not their regions.
transition_detected_whole_record(driver_id, new_location) ==
    /\ driver_id \in DOMAIN driver_locations
    /\ driver_locations[driver_id] # new_location

\* Variant: a driver without an entry is treated as being in no region.
transition_detected_missing_as_none(driver_id, new_location) ==
    (IF driver_id \in DOMAIN driver_locations
     THEN driver_locations[driver_id].region ELSE None) # new_location.region

\* _check_region_transition, lines 164-171: a transition is a driver that is
\* already in driver_locations and whose stored region differs from the new one.
transition_detected(driver_id, new_location) ==
    /\ driver_id \in DOMAIN driver_locations
    /\ driver_locations[driver_id].region # new_location.region

\* Variant: every driver_id can be a dict key.
hashable_always(driver_id) == TRUE

\* hash(driver_id), which "driver_id not in self.driver_locations" needs: a
\* JSON array (a Python list) is not hashable, the lookup raises TypeError.
hashable(driver_id) == driver_id # UnhashableId

\* with self.location_lock: ... _check_region_transition up to the test of
\* line 171.  The lock is taken and the stored entry is read under it.  The
\* lookup of an unhashable driver_id raises: the with block releases the lock
\* and update_location is left before any callback and before the store.
update_location_lock(t) ==
    /\ pc[t] = "lock"
    /\ lock_free
    /\ LET loc == location_update[t][1]
           d   == loc.driver_id
       IN  IF hashable(d)
           THEN /\ location_lock' = t
                /\ old_location' = [old_location EXCEPT ![t] =
                        IF d \in DOMAIN driver_locations
                        THEN << driver_locations[d] >> ELSE << >>]
                /\ IF transition_detected(d, loc)
                   THEN /\ pc' = [pc EXCEPT ![t] = "notify"]
                        /\ idx' = [idx EXCEPT ![t] = 1]
                   ELSE /\ pc' = [pc EXCEPT ![t] = "store"]
                        /\ UNCHANGED idx
           ELSE /\ location_lock' = NoThread
                /\ pc' = [pc EXCEPT ![t] = "raised"]
                /\ UNCHANGED << old_location, idx >>
    /\ UNCHANGED << driver_locations, delivery_regions, region_transition_callbacks,
                    location_update, notified, loop_len, result >>
    /\ UNCHANGED route_vars

\* What calling a callback does: it returns, or it raises an Exception.
call_callback(callback) == IF callback = "raises" THEN "Exception" ELSE "return"

\* Variant: no try/except around the call.
caught_nothing(outcome) == FALSE

\* Variant: except ValueError, a narrower clause than except Exception.
caught_value_error(outcome) == outcome = "ValueError"

\* except Exception as e: logger.error(...) catches what the callback raised.
caught(outcome) == outcome = "Exception"

\* Variant: old and new region passed in the other order.
callback_args_swapped(driver_id, old_region, new_region, new_location) ==
    [driver_id |-> driver_id, old_region |-> new_region, new_region |-> old_region,
     new_location |-> new_location]

\* The arguments of callback(driver_id, old_region, new_region, new_location).
callback_args(driver_id, old_region, new_region, new_location) ==
    [driver_id |-> driver_id, old_region |-> old_region, new_region |-> new_region,
     new_location |-> new_location]

\* Variant: the loop skips every second callback.
next_callback_skip(i) == i + 2

\* The for loop of line 175 moves to the next element of the list.
next_callback(i) == i + 1

\* One iteration of "for callback in self.region_transition_callbacks": the
\* callback is called on thread t, which holds the lock; an Exception is caught
\* and logged and the loop goes on, anything not caught leaves the with block
\* (releasing the lock) and update_location.
update_location_notify(t) ==
    /\ pc[t] = "notify"
    /\ idx[t] <= Len(region_transition_callbacks)
    /\ region_transition_callbacks[idx[t]] \in CallbackKinds
    /\ LET loc      == location_update[t][1]
           old      == old_location[t][1]
           callback == region_transition_callbacks[idx[t]]
           outcome  == call_callback(callback)
           call     == [position |-> idx[t], callback |-> callback, thread |-> t,
                        args |-> callback_args(loc.driver_id, old.region, loc.region, loc),
                        stored |-> driver_locations[loc.driver_id],
                        lock_holder |-> location_lock,
                        raised |-> outcome # "return"]
       IN  /\ notified' = [notified EXCEPT ![t] = Append(@, call)]
           /\ IF outcome = "return" \/ caught(outcome)
              THEN /\ idx' = [idx EXCEPT ![t] = next_callback(@)]
                   /\ UNCHANGED << pc, location_lock >>
              ELSE /\ pc' = [pc EXCEPT ![t] = "raised"]
                   /\ location_lock' = NoThread
                   /\ UNCHANGED idx
    /\ UNCHANGED << driver_locations, delivery_regions, region_transition_callbacks,
                    location_update, old_location, loop_len, result >>
    /\ UNCHANGED route_vars

\* The for loop ends when the iterator is past the end of the (live) list.
update_location_loop_end(t) ==
    /\ pc[t] = "notify"
    /\ idx[t] > Len(region_transition_callbacks)
    /\ pc' = [pc EXCEPT ![t] = "store"]
    /\ loop_len' = [loop_len EXCEPT ![t] = Len(region_transition_callbacks)]
    /\ UNCHANGED << driver_locations, delivery_regions, region_transition_callbacks,
                    location_lock, location_update, old_location, idx, notified, result >>
    /\ UNCHANGED route_vars

\* Variant: an existing entry is updated in place, field by field, and the
\* timestamp is forgotten.
store_location_in_place(locations, driver_id, loc) ==
    IF driver_id \in DOMAIN locations
    THEN [locations EXCEPT ![driver_id] =
             [@ EXCEPT !.latitude = loc.latitude, !.longitude = loc.longitude,
                       !.region = loc.region]]
    ELSE [ d \in (DOMAIN locations) \cup {driver_id} |->
             IF d = driver_id THEN loc ELSE locations[d] ]

\* Variant: the dict is replaced by one that holds the new entry only.
store_location_only(locations, driver_id, loc) ==
    [ d \in {driver_id} |-> loc ]

\* Variant: an entry with a newer timestamp is kept.
store_location_if_newer(locations, driver_id, loc) ==
    IF driver_id \in DOMAIN locations /\ locations[driver_id].timestamp > loc.timestamp
    THEN locations
    ELSE [ d \in (DOMAIN locations) \cup {driver_id} |->
             IF d = driver_id THEN loc ELSE locations[d] ]

\* self.driver_locations[driver_id] = location_update: the dict entry is
\* replaced by the new object.
store_location(locations, driver_id, loc) ==
    [ d \in (DOMAIN locations) \cup {driver_id} |->
        IF d = driver_id THEN loc ELSE locations[d] ]

\* Line 204 and the end of the with block: store, release the lock; then the
\* result dict of lines 208-217 is built from the call's own values.  The
\* frame of _check_region_transition (old_location, the loop) is gone by then.
update_location_store(t) ==
    /\ pc[t] = "store"
    /\ LET loc == location_update[t][1]
       IN  /\ driver_locations' = store_location(driver_locations, loc.driver_id, loc)
           /\ result' = [result EXCEPT ![t] = << success_result(loc) >>]
    /\ location_lock' = NoThread
    /\ pc' = [pc EXCEPT ![t] = "returned"]
    /\ old_location' = [old_location EXCEPT ![t] = << >>]
    /\ idx' = [idx EXCEPT ![t] = 0]
    /\ notified' = [notified EXCEPT ![t] = << >>]
    /\ loop_len' = [loop_len EXCEPT ![t] = 0]
    /\ UNCHANGED << delivery_regions, region_transition_callbacks, location_update >>
    /\ UNCHANGED route_vars

\* update_location has returned (or raised): the thread's frame is gone and
\* the thread can serve the next request.
update_location_end(t) ==
    /\ pc[t] \in {"returned", "raised"}
    /\ pc' = [pc EXCEPT ![t] = "idle"]
    /\ location_update' = [location_update EXCEPT ![t] = << >>]
    /\ old_location' = [old_location EXCEPT ![t] = << >>]
    /\ idx' = [idx EXCEPT ![t] = 0]
    /\ notified' = [notified EXCEPT ![t] = << >>]
    /\ loop_len' = [loop_len EXCEPT ![t] = 0]
    /\ result' = [result EXCEPT ![t] = << >>]
    /\ UNCHANGED << driver_locations, delivery_regions, region_transition_callbacks,
                    location_lock >>
    /\ UNCHANGED route_vars

\* The steps the given request threads can take for the given drivers, and the
\* registration of a callback.
Calls(threads, drivers) ==
    \/ \E callback \in CallbackKinds : add_region_transition_callback(callback)
    \/ \E t \in threads, driver_id \in drivers, p \in TestPoints,
          timestamp \in Timestamps \cup {NoTimestamp} :
          update_location_begin(t, driver_id, p[1], p[2], timestamp)
    \/ \E t \in threads : update_location_lock(t)
    \/ \E t \in threads : update_location_notify(t)
    \/ \E t \in threads : update_location_loop_end(t)
    \/ \E t \in threads : update_location_store(t)
    \/ \E t \in threads : update_location_end(t)

\* Every thread serves requests for every driver.
Next == Calls(Threads, Drivers)

Spec == Init /\ [][Next]_vars

\* All threads update the same driver: the most contention one entry can get.
NextOneDriver == Calls(Threads, {"d1"})

SpecOneDriver == Init /\ [][NextOneDriver]_vars

\* Fair scheduling of the threads inside update_location: a thread that can
\* take its next step eventually takes it, and a thread waiting for the lock
\* gets it if the lock is free again and again.  Callbacks terminate (a call
\* is one step).
FairScheduling ==
    /\ \A t \in Threads : SF_vars(update_location_lock(t))
    /\ \A t \in Threads : WF_vars(update_location_notify(t))
    /\ \A t \in Threads : WF_vars(update_location_loop_end(t))
    /\ \A t \in Threads : WF_vars(update_location_store(t))

FairSpecOneDriver == SpecOneDriver /\ FairScheduling

\* One thread serves the requests of all drivers, one after the other.
NextOneThread == Calls({"t1"}, Drivers)

SpecOneThread == Init /\ [][NextOneThread]_vars

\* ------------------------------------------------ POST /location-update
\* A member of the JSON body is a pair <<kind, value>>; the kind "missing"
\* says that the body has no such key.
\* The latitudes and longitudes of the requests, in hundredths of a degree:
\* 39.99 and 39.50 at longitude -75.15 are inside philly_north and outside
\* every region; 200.00 is no latitude at all.
RequestLatitudes == {3999, 3950, 20000}

RequestLongitudes == {-7515}

JsonDriverIds(drivers) ==
    { <<"string", d>> : d \in drivers } \cup { <<"array", UnhashableId>>, <<"missing", "">> }

JsonCoordinates(values) ==
    { <<"number", v>> : v \in values } \cup { <<"numeric string", v>> : v \in values }
        \cup { <<"string", 0>>, <<"null", 0>>, <<"missing", 0>> }

JsonTimestamps ==
    { <<"iso string", ts>> : ts \in Timestamps }
        \cup { <<"string", 0>>, <<"number", 0>>, <<"missing", 0>> }

\* The bodies request.get_json() returns: JSON objects.
Bodies(drivers) ==
    [driver_id : JsonDriverIds(drivers), latitude : JsonCoordinates(RequestLatitudes),
     longitude : JsonCoordinates(RequestLongitudes), timestamp : JsonTimestamps]

\* field not in data
missing(data, field) == data[field][1] = "missing"

\* not data: the empty object.
empty(data) == \A field \in DOMAIN data : missing(data, field)

\* float(x): a number and a string that spells a number convert, any other
\* string raises ValueError, None raises TypeError.
float(x) ==
    CASE x[1] \in {"number", "numeric string"} -> <<"float", x[2]>>
      [] x[1] = "string" -> <<"ValueError", 0>>
      [] OTHER -> <<"TypeError", 0>>

\* datetime.fromisoformat(x.replace('Z', '+00:00')): an ISO string gives the
\* datetime, any other string raises ValueError, a value that is not a string
\* has no replace method and raises AttributeError.
fromisoformat(x) ==
    CASE x[1] = "iso string" -> <<"datetime", x[2]>>
      [] x[1] = "string" -> <<"ValueError", 0>>
      [] OTHER -> <<"AttributeError", 0>>

\* jsonify({"status": "error", "message": message}), code
error_response(code, message) ==
    [code |-> code, body |-> [status |-> "error", message |-> message]]

\* Lines 312-339 and the except clauses of lines 346-356: the response of a
\* request that does not get as far as update_location (0 or 1 element).
\* float(latitude) is evaluated before float(longitude), and both before the
\* timestamp is looked at.
rejected(data) ==
    IF empty(data) THEN << error_response(400, "No JSON data provided") >>
    ELSE IF missing(data, "driver_id") THEN << error_response(400, "Missing required field: driver_id") >>
    ELSE IF missing(data, "latitude") THEN << error_response(400, "Missing required field: latitude") >>
    ELSE IF missing(data, "longitude") THEN << error_response(400, "Missing required field: longitude") >>
    ELSE IF float(data.latitude)[1] = "ValueError" THEN << error_response(400, "Invalid coordinate values") >>
    ELSE IF float(data.latitude)[1] = "TypeError" THEN << error_response(500, "Internal server error") >>
    ELSE IF float(data.longitude)[1] = "ValueError" THEN << error_response(400, "Invalid coordinate values") >>
    ELSE IF float(data.longitude)[1] = "TypeError" THEN << error_response(500, "Internal server error") >>
    ELSE IF missing(data, "timestamp") THEN << >>
    ELSE IF fromisoformat(data.timestamp)[1] = "ValueError" THEN << error_response(400, "Invalid timestamp format") >>
    ELSE IF fromisoformat(data.timestamp)[1] = "AttributeError" THEN << error_response(500, "Internal server error") >>
    ELSE << >>

\* The route location_update() up to the with statement of update_location:
\* the body is validated and converted, and update_location is called with
\* the converted values (lines 184-197 build the LocationUpdate).  The request
\* is kept with the content of driver_locations at its arrival.
post_location_update(t, data) ==
    /\ pc[t] = "idle"
    /\ request' = [request EXCEPT ![t] =
           << [data |-> data, driver_locations |-> driver_locations] >>]
    /\ IF rejected(data) # << >>
       THEN /\ response' = [response EXCEPT ![t] = rejected(data)]
            /\ pc' = [pc EXCEPT ![t] = "responded"]
            /\ UNCHANGED location_update
       ELSE /\ \E ts \in (IF missing(data, "timestamp") THEN now
                          ELSE {fromisoformat(data.timestamp)[2]}) :
                 location_update' = [location_update EXCEPT ![t] =
                     << LocationUpdate(data.driver_id[2], float(data.latitude)[2],
                                       float(data.longitude)[2], ts,
                                       detect_region(float(data.latitude)[2],
                                                     float(data.longitude)[2])) >>]
            /\ pc' = [pc EXCEPT ![t] = "lock"]
            /\ UNCHANGED response
    /\ UNCHANGED << driver_locations, delivery_regions, region_transition_callbacks,
                    location_lock, old_location, idx, notified, loop_len, result, query >>

\* Lines 342-344 and 351-356: update_location has returned and its result is
\* sent with 200, or it has raised and except Exception answers 500.
post_location_update_respond(t) ==
    /\ pc[t] \in {"returned", "raised"}
    /\ request[t] # << >>
    /\ response' = [response EXCEPT ![t] =
           IF pc[t] = "returned"
           THEN << [code |-> 200, body |-> result[t][1]] >>
           ELSE << error_response(500, "Internal server error") >>]
    /\ pc' = [pc EXCEPT ![t] = "responded"]
    /\ location_update' = [location_update EXCEPT ![t] = << >>]
    /\ result' = [result EXCEPT ![t] = << >>]
    /\ UNCHANGED << driver_locations, delivery_regions, region_transition_callbacks,
                    location_lock, old_location, idx, notified, loop_len, request, query >>

\* The response has been sent: the thread can serve the next request.
post_location_update_end(t) ==
    /\ pc[t] = "responded"
    /\ pc' = [pc EXCEPT ![t] = "idle"]
    /\ request' = [request EXCEPT ![t] = << >>]
    /\ response' = [response EXCEPT ![t] = << >>]
    /\ old_location' = [old_location EXCEPT ![t] = << >>]
    /\ idx' = [idx EXCEPT ![t] = 0]
    /\ notified' = [notified EXCEPT ![t] = << >>]
    /\ loop_len' = [loop_len EXCEPT ![t] = 0]
    /\ UNCHANGED << driver_locations, delivery_regions, region_transition_callbacks,
                    location_lock, location_update, result, query >>

\* One thread serves POST /location-update requests for one driver, one after
\* the other, while callbacks are registered.
NextHttp ==
    \/ \E callback \in CallbackKinds : add_region_transition_callback(callback)
    \/ \E data \in Bodies({"d1"}) : post_location_update("t1", data)
    \/ update_location_lock("t1")
    \/ update_location_notify("t1")
    \/ update_location_loop_end("t1")
    \/ update_location_store("t1")
    \/ post_location_update_respond("t1")
    \/ post_location_update_end("t1")

SpecHttp == Init /\ [][NextHttp]_vars

\* ------------------------------------------------------- the query methods
\* The region names of the GET /region/<region_name>/drivers requests.
QueryRegions == {"philly_north", "philly_south"}

\* get_current_region, lines 223-227: the dict for a driver without an entry.
not_found_result(driver_id) ==
    [status |-> "not_found", driver_id |-> driver_id,
     message |-> "No location data available"]

\* Variant: the coordinates are filled in the other way round.
current_region_result_swapped(driver_id, location) ==
    [status |-> "success", driver_id |-> driver_id, region |-> location.region,
     timestamp |-> isoformat(location.timestamp),
     coordinates |-> [latitude |-> location.longitude, longitude |-> location.latitude]]

\* get_current_region, lines 230-239: the dict for a driver with an entry.
current_region_result(driver_id, location) ==
    [status |-> "success", driver_id |-> driver_id, region |-> location.region,
     timestamp |-> isoformat(location.timestamp),
     coordinates |-> [latitude |-> location.latitude, longitude |-> location.longitude]]

\* get_all_drivers, lines 246-253: the value stored under a driver_id.
drivers_data_entry(location) ==
    [region |-> location.region, timestamp |-> isoformat(location.timestamp),
     coordinates |-> [latitude |-> location.latitude, longitude |-> location.longitude]]

\* get_drivers_in_region, lines 267-274: the element appended for a driver.
drivers_in_region_entry(driver_id, location) ==
    [driver_id |-> driver_id, timestamp |-> isoformat(location.timestamp),
     coordinates |-> [latitude |-> location.latitude, longitude |-> location.longitude]]

\* Variant: a driver in no region is listed under every region.
region_matches_or_none(location, region_name) ==
    location.region = region_name \/ location.region = None

\* get_drivers_in_region, line 266: if location.region == region_name
region_matches(location, region_name) == location.region = region_name

\* The frame of a query method: its argument, the drivers the iteration over
\* driver_locations.items() has still to visit, and what it has collected.
query_frame(method, arg) ==
    [method |-> method, arg |-> arg, remaining |-> {},
     drivers_data |-> << >>, drivers_in_region |-> << >>]

\* A thread starts to serve GET /current-region/<driver_id>,
\* GET /drivers or GET /region/<region_name>/drivers and reaches the with
\* statement of the method.
query_call(t, method, arg) ==
    /\ pc[t] = "idle"
    /\ pc' = [pc EXCEPT ![t] = "query_lock"]
    /\ query' = [query EXCEPT ![t] = << query_frame(method, arg) >>]
    /\ UNCHANGED << driver_locations, delivery_regions, region_transition_callbacks,
                    location_lock, location_update, old_location, idx, notified,
                    loop_len, result, request, response >>

get_current_region(t, driver_id) == query_call(t, "get_current_region", driver_id)

get_all_drivers(t) == query_call(t, "get_all_drivers", "")

get_drivers_in_region(t, region_name) == query_call(t, "get_drivers_in_region", region_name)

\* with self.location_lock: the lock is taken; the two loops start to iterate
\* over the entries driver_locations has now.
query_lock(t) ==
    /\ pc[t] = "query_lock"
    /\ lock_free
    /\ location_lock' = t
    /\ pc' = [pc EXCEPT ![t] = "query_body"]
    /\ query' = [query EXCEPT ![t][1].remaining = DOMAIN driver_locations]
    /\ UNCHANGED << driver_locations, delivery_regions, region_transition_callbacks,
                    location_update, old_location, idx, notified, loop_len, result,
                    request, response >>

\* One iteration of "for driver_id, location in self.driver_locations.items()"
\* of get_all_drivers (lines 245-253) or get_drivers_in_region (lines 265-274).
\* The order of the dict's entries is not recorded: any of the remaining
\* drivers may come next.
query_iterate(t) ==
    /\ pc[t] = "query_body"
    /\ query[t][1].method # "get_current_region"
    /\ \E driver_id \in query[t][1].remaining :
         LET q        == query[t][1]
             location == driver_locations[driver_id]
         IN  query' = [query EXCEPT ![t] =
                 IF q.method = "get_all_drivers"
                 THEN << [q EXCEPT !.remaining = @ \ {driver_id},
                                   !.drivers_data =
                                       [ d \in (DOMAIN q.drivers_data) \cup {driver_id} |->
                                           IF d = driver_id THEN drivers_data_entry(location)
                                           ELSE q.drivers_data[d] ]] >>
                 ELSE << [q EXCEPT !.remaining = @ \ {driver_id},
                                   !.drivers_in_region =
                                       IF region_matches(location, q.arg)
                                       THEN Append(@, drivers_in_region_entry(driver_id, location))
                                       ELSE @] >>]
    /\ UNCHANGED << driver_locations, delivery_regions, region_transition_callbacks,
                    location_lock, pc, location_update, old_location, idx, notified,
                    loop_len, result, request, response >>

\* The dict the method returns, built while the lock is still held: lines
\* 222-239, 255-259 and 276-281.
query_result(t) ==
    /\ pc[t] = "query_body"
    /\ query[t][1].method = "get_current_region" \/ query[t][1].remaining = {}
    /\ LET q == query[t][1]
       IN  result' = [result EXCEPT ![t] =
               CASE q.method = "get_current_region" ->
                      IF q.arg \notin DOMAIN driver_locations
                      THEN << not_found_result(q.arg) >>
                      ELSE << current_region_result(q.arg, driver_locations[q.arg]) >>
                 [] q.method = "get_all_drivers" ->
                      << [status |-> "success", drivers |-> q.drivers_data,
                          total_drivers |-> Cardinality(DOMAIN q.drivers_data)] >>
                 [] OTHER ->
                      << [status |-> "success", region |-> q.arg,
                          drivers |-> q.drivers_in_region,
                          count |-> Len(q.drivers_in_region)] >>]
    /\ pc' = [pc EXCEPT ![t] = "query_done"]
    /\ UNCHANGED << driver_locations, delivery_regions, region_transition_callbacks,
                    location_lock, location_update, old_location, idx, notified,
                    loop_len, request, response, query >>

\* Variant: every result of get_current_region is sent with 200.
current_region_code_always_ok(res) == 200

\* The route get_current_region, lines 367-370: 404 for "not_found", else 200.
current_region_code(res) == IF res.status = "not_found" THEN 404 ELSE 200

\* The method returns, which releases the lock, and the route sends
\* jsonify(result) with its code (lines 365-370, 386-387, 403-404).
query_return(t) ==
    /\ pc[t] = "query_done"
    /\ location_lock' = NoThread
    /\ response' = [response EXCEPT ![t] =
           << [code |-> IF query[t][1].method = "get_current_region"
                        THEN current_region_code(result[t][1]) ELSE 200,
               body |-> result[t][1]] >>]
    /\ pc' = [pc EXCEPT ![t] = "responded"]
    /\ UNCHANGED << driver_locations, delivery_regions, region_transition_callbacks,
                    location_update, old_location, idx, notified, loop_len, result,
                    request, query >>

\* The response has been sent: the thread can serve the next request.
query_end(t) ==
    /\ pc[t] = "responded"
    /\ query[t] # << >>
    /\ pc' = [pc EXCEPT ![t] = "idle"]
    /\ response' = [response EXCEPT ![t] = << >>]
    /\ result' = [result EXCEPT ![t] = << >>]
    /\ query' = [query EXCEPT ![t] = << >>]
    /\ UNCHANGED << driver_locations, delivery_regions, region_transition_callbacks,
                    location_lock, location_update, old_location, idx, notified,
                    loop_len, request >>

\* Thread t1 updates the drivers (no callback is registered) while thread t2
\* serves the GET requests.
NextQueries ==
    \/ \E driver_id \in Drivers, p \in TestPoints, timestamp \in Timestamps :
          update_location_begin("t1", driver_id, p[1], p[2], timestamp)
    \/ update_location_lock("t1")
    \/ update_location_loop_end("t1")
    \/ update_location_store("t1")
    \/ update_location_end("t1")
    \/ \E driver_id \in Drivers : get_current_region("t2", driver_id)
    \/ get_all_drivers("t2")
    \/ \E region_name \in QueryRegions : get_drivers_in_region("t2", region_name)
    \/ query_lock("t2")
    \/ query_iterate("t2")
    \/ query_result("t2")
    \/ query_return("t2")
    \/ query_end("t2")

SpecQueries == Init /\ [][NextQueries]_vars

\* ------------------------------------------------------- _detect_region
\* The inputs of _detect_region: a coordinate and the registry with the
\* is_active flag of every DeliveryRegion.  The coordinates are a grid over
\* the configured rectangles: interiors, the three overlaps, shared edges,
\* the gap between jersey_camden and jersey_burlington, and the outside.
GridLatitudes == {3950, 3985, 3996, 3998, 3999, 4000, 4005, 4030}

GridLongitudes == {-7560, -7544, -7525, -7521, -7520, -7515, -7500, -7450}

GridPoints == GridLatitudes \X GridLongitudes

\* The regions whose is_active flag may be False (the dataclass field of line
\* 38; _initialize_regions sets it True and no code of the service clears it).
InactiveChoices == {"philly_south", "montgomery_county"}

\* The registry with the given regions not active.
regions_with_inactive(off) ==
    [ i \in 1..Len(initialize_regions) |->
        [initialize_regions[i] EXCEPT !.is_active = (initialize_regions[i].name \notin off)] ]

InitClassify ==
    /\ driver_locations = << >>
    /\ delivery_regions \in { regions_with_inactive(off) : off \in SUBSET InactiveChoices }
    /\ region_transition_callbacks = << >>
    /\ location_lock = NoThread
    /\ pc = [t \in Threads |-> "idle"]
    /\ location_update = [t \in Threads |-> << >>]
    /\ old_location = [t \in Threads |-> << >>]
    /\ idx = [t \in Threads |-> 0]
    /\ notified = [t \in Threads |-> << >>]
    /\ loop_len = [t \in Threads |-> 0]
    /\ result = [t \in Threads |-> << >>]
    /\ request = [t \in Threads |-> << >>]
    /\ response = [t \in Threads |-> << >>]
    /\ query = [t \in Threads |-> << >>]

\* One thread calls update_location for one driver with the coordinates of the
\* grid, each call classifying its coordinate with _detect_region.
NextClassify ==
    \/ \E p \in GridPoints : update_location_begin("t1", "d1", p[1], p[2], 1)
    \/ update_location_lock("t1")
    \/ update_location_loop_end("t1")
    \/ update_location_store("t1")
    \/ update_location_end("t1")

SpecClassify == InitClassify /\ [][NextClassify]_vars

\* ---------------------------------- POST /location-update with a region
\* Well-formed bodies that also carry a member the route does not read: a
\* "region" of the caller's choice.
BodiesWithRegion(drivers) ==
    [driver_id : { <<"string", d>> : d \in drivers },
     latitude : { <<"number", v>> : v \in RequestLatitudes \ {20000} },
     longitude : { <<"number", v>> : v \in RequestLongitudes },
     timestamp : { <<"iso string", ts>> : ts \in Timestamps } \cup { <<"missing", 0>> },
     region : { <<"string", "philly_south">>, <<"missing", "">> }]

\* One thread serves the POST /location-update requests of all drivers, whose
\* bodies may name a region.
NextSupplied ==
    \/ \E data \in BodiesWithRegion(Drivers) : post_location_update("t1", data)
    \/ update_location_lock("t1")
    \/ update_location_loop_end("t1")
    \/ update_location_store("t1")
    \/ post_location_update_respond("t1")
    \/ post_location_update_end("t1")

SpecSupplied == Init /\ [][NextSupplied]_vars

\* ------------------------------------- a callback that calls the service
\* A callback that asks the service where the driver is:
\*     lambda driver_id, old, new, loc: location_service.get_current_region(driver_id)
ReentrantCallback == "reenters"

\* Line 177 with such a callback: the call runs on thread t, inside t's with
\* block, and arrives at the with statement of get_current_region (line 221)
\* as any caller of the method does.  The frame of update_location stays below
\* it: location_update, old_location and idx are kept.
update_location_notify_reentrant(t) ==
    /\ pc[t] = "notify"
    /\ idx[t] <= Len(region_transition_callbacks)
    /\ region_transition_callbacks[idx[t]] = ReentrantCallback
    /\ pc' = [pc EXCEPT ![t] = "query_lock"]
    /\ query' = [query EXCEPT ![t] =
           << query_frame("get_current_region", location_update[t][1].driver_id) >>]
    /\ UNCHANGED << driver_locations, delivery_regions, region_transition_callbacks,
                    location_lock, location_update, old_location, idx, notified,
                    loop_len, result, request, response >>

\* Thread t1 updates driver d1 with callbacks that call get_current_region;
\* thread t2 serves GET /current-region/d1.  The steps of get_current_region
\* are the same whoever called it.
NextReentry ==
    \/ add_region_transition_callback(ReentrantCallback)
    \/ \E p \in TestPoints : update_location_begin("t1", "d1", p[1], p[2], NoTimestamp)
    \/ update_location_lock("t1")
    \/ update_location_notify_reentrant("t1")
    \/ update_location_loop_end("t1")
    \/ update_location_store("t1")
    \/ update_location_end("t1")
    \/ get_current_region("t2", "d1")
    \/ \E t \in Threads : query_lock(t)
    \/ \E t \in Threads : query_result(t)
    \/ \E t \in Threads : query_return(t)
    \/ \E t \in Threads : query_end(t)

SpecReentry == Init /\ [][NextReentry]_vars

\* ------------------------------------------------- GET /health, GET /regions
\* health_check, line 294: "active_regions": len(delivery_regions)
active_regions == Len(delivery_regions)

\* health_check, line 295: "tracked_drivers": len(driver_locations)
tracked_drivers == Cardinality(DOMAIN driver_locations)

\* The route health_check: the two lengths are read without the lock and sent
\* with the time of the clock.
health_check(t) ==
    /\ pc[t] = "idle"
    /\ \E ts \in now :
         response' = [response EXCEPT ![t] =
             << [code |-> 200,
                 body |-> [status |-> "healthy", service |-> "TTK Bot Location Service",
                           timestamp |-> isoformat(ts),
                           active_regions |-> active_regions,
                           tracked_drivers |-> tracked_drivers]] >>]
    /\ query' = [query EXCEPT ![t] = << query_frame("health_check", "") >>]
    /\ pc' = [pc EXCEPT ![t] = "responded"]
    /\ UNCHANGED << driver_locations, delivery_regions, region_transition_callbacks,
                    location_lock, location_update, old_location, idx, notified,
                    loop_len, result, request >>

\* len(region.polygon.exterior.coords): shapely closes the ring, the first
\* vertex is repeated at the end.
boundary_points(polygon) == Len(polygon) + 1

\* The route get_regions, lines 420-432: one entry per region, read without
\* the lock.
get_regions(t) ==
    /\ pc[t] = "idle"
    /\ response' = [response EXCEPT ![t] =
           << [code |-> 200,
               body |-> [status |-> "success",
                         regions |-> [ i \in 1..Len(delivery_regions) |->
                             [name |-> delivery_regions[i].name,
                              is_active |-> delivery_regions[i].is_active,
                              boundary_points |-> boundary_points(delivery_regions[i].polygon)] ],
                         total_regions |-> Len(delivery_regions)]] >>]
    /\ query' = [query EXCEPT ![t] = << query_frame("get_regions", "") >>]
    /\ pc' = [pc EXCEPT ![t] = "responded"]
    /\ UNCHANGED << driver_locations, delivery_regions, region_transition_callbacks,
                    location_lock, location_update, old_location, idx, notified,
                    loop_len, result, request >>

\* Thread t1 updates both drivers, with callbacks that return, while thread t2
\* serves every GET route.
FramePoints == { <<3999, -7515>>, <<3950, -7450>> }

NextFrame ==
    \/ add_region_transition_callback("returns")
    \/ \E driver_id \in Drivers, p \in FramePoints :
          update_location_begin("t1", driver_id, p[1], p[2], 1)
    \/ update_location_lock("t1")
    \/ update_location_notify("t1")
    \/ update_location_loop_end("t1")
    \/ update_location_store("t1")
    \/ update_location_end("t1")
    \/ \E driver_id \in Drivers : get_current_region("t2", driver_id)
    \/ get_all_drivers("t2")
    \/ get_drivers_in_region("t2", "philly_north")
    \/ query_lock("t2")
    \/ query_iterate("t2")
    \/ query_result("t2")
    \/ query_return("t2")
    \/ health_check("t2")
    \/ get_regions("t2")
    \/ query_end("t2")

SpecFrame == Init /\ [][NextFrame]_vars

\* Both threads call update_location, for d1 and with a driver_id that is not
\* hashable, with callbacks that return or raise, and serve
\* GET /current-region/d1.
NextLock ==
    \/ \E callback \in CallbackKinds : add_region_transition_callback(callback)
    \/ \E t \in Threads, driver_id \in {"d1", UnhashableId}, p \in FramePoints :
          update_location_begin(t, driver_id, p[1], p[2], 1)
    \/ \E t \in Threads : update_location_lock(t)
    \/ \E t \in Threads : update_location_notify(t)
    \/ \E t \in Threads : update_location_loop_end(t)
    \/ \E t \in Threads : update_location_store(t)
    \/ \E t \in Threads : update_location_end(t)
    \/ \E t \in Threads : get_current_region(t, "d1")
    \/ \E t \in Threads : query_lock(t)
    \/ \E t \in Threads : query_result(t)
    \/ \E t \in Threads : query_return(t)
    \/ \E t \in Threads : query_end(t)

SpecLock == Init /\ [][NextLock]_vars

\* --------------------------------------------------- the operator's toggle
\* SetActive(name, active) of the region registry: the is_active field of the
\* named DeliveryRegion is set.  The service has no method for it; the field
\* is an attribute of a dataclass that is not frozen.
set_active(name, active) ==
    /\ \E i \in 1..Len(delivery_regions) :
          delivery_regions[i].name = name /\ delivery_regions[i].is_active # active
    /\ delivery_regions' =
           [ i \in 1..Len(delivery_regions) |->
               IF delivery_regions[i].name = name
               THEN [delivery_regions[i] EXCEPT !.is_active = active]
               ELSE delivery_regions[i] ]
    /\ UNCHANGED << driver_locations, region_transition_callbacks, location_lock, pc,
                    location_update, old_location, idx, notified, loop_len, result >>
    /\ UNCHANGED route_vars

\* Thread t1 updates one driver while the operator toggles regions, a callback
\* that returns is registered, and thread t2 serves GET /health.
NextRegistry ==
    \/ \E name \in InactiveChoices, active \in BOOLEAN : set_active(name, active)
    \/ add_region_transition_callback("returns")
    \/ \E p \in TestPoints : update_location_begin("t1", "d1", p[1], p[2], NoTimestamp)
    \/ update_location_lock("t1")
    \/ update_location_notify("t1")
    \/ update_location_loop_end("t1")
    \/ update_location_store("t1")
    \/ update_location_end("t1")
    \/ health_check("t2")
    \/ query_end("t2")

SpecRegistry == Init /\ [][NextRegistry]_vars

\* ------------------------------------------------------------ properties
\* The thread is inside the with block, in or after _check_region_transition.
InLockedSection(t) == pc[t] \in {"notify", "store"}

\* The entry of the thread's driver as the dict holds it now (0 or 1 element).
StoredEntry(t) ==
    LET d == location_update[t][1].driver_id
    IN  IF d \in DOMAIN driver_locations THEN << driver_locations[d] >> ELSE << >>

\* C1. Idempotent reclassification: an update_location for a driver whose
\* stored entry has the same coordinates (the same call made twice in a row)
\* never enters the callback loop and invokes no callback.
C1_IdempotentReclassification ==
    \A t \in Threads :
        (/\ InLockedSection(t)
         /\ StoredEntry(t) # << >>
         /\ StoredEntry(t)[1].latitude = location_update[t][1].latitude
         /\ StoredEntry(t)[1].longitude = location_update[t][1].longitude)
        => (pc[t] = "store" /\ idx[t] = 0 /\ notified[t] = << >>)

\* C1 witness: a second update at the stored coordinates (inside a region, with
\* another timestamp) is about to be stored while callbacks are registered.
C1_Witness ==
    \E t \in Threads :
        /\ pc[t] = "store"
        /\ StoredEntry(t) # << >>
        /\ StoredEntry(t)[1].latitude = location_update[t][1].latitude
        /\ StoredEntry(t)[1].longitude = location_update[t][1].longitude
        /\ StoredEntry(t)[1].timestamp # location_update[t][1].timestamp
        /\ location_update[t][1].region # None
        /\ Len(region_transition_callbacks) = MaxCallbacks

\* The update of thread t is a transition: the driver has an entry and its
\* stored region differs from the detected one.
IsTransition(t) ==
    /\ StoredEntry(t) # << >>
    /\ StoredEntry(t)[1].region # location_update[t][1].region

\* C2. Transition symmetry: when the detected region differs from the stored
\* one, every callback call carries from = the stored region and to = the new
\* region, and when the loop has ended each callback registered by then has
\* received exactly one call; this for region to region, region to no region
\* and no region to region alike.
C2_TransitionSymmetry ==
    \A t \in Threads :
        (InLockedSection(t) /\ IsTransition(t)) =>
            /\ idx[t] > 0
            /\ \A i \in 1..Len(notified[t]) :
                 /\ notified[t][i].args.driver_id = location_update[t][1].driver_id
                 /\ notified[t][i].args.old_region = StoredEntry(t)[1].region
                 /\ notified[t][i].args.new_region = location_update[t][1].region
                 /\ notified[t][i].args.new_location = location_update[t][1]
            /\ pc[t] = "store" =>
                 /\ Len(notified[t]) = loop_len[t]
                 /\ \A k \in 1..loop_len[t] :
                      Cardinality({ i \in 1..Len(notified[t]) :
                                      notified[t][i].position = k }) = 1

\* C2 witness: the spec's scenario 2, a driver stored in philly_north pings far
\* outside; both callbacks have been called once with (philly_north, None).
C2_Witness ==
    \E t \in Threads :
        /\ pc[t] = "store"
        /\ StoredEntry(t) # << >>
        /\ StoredEntry(t)[1].region = "philly_north"
        /\ location_update[t][1].region = None
        /\ Len(notified[t]) = MaxCallbacks
        /\ notified[t][1].args.old_region = "philly_north"
        /\ notified[t][1].args.new_region = None

\* The other two shapes of C2: region to region, and no region to region.
C2_WitnessRegionToRegion ==
    \E t \in Threads :
        /\ pc[t] = "store"
        /\ Len(notified[t]) = MaxCallbacks
        /\ notified[t][MaxCallbacks].args.old_region = "philly_north"
        /\ notified[t][MaxCallbacks].args.new_region = "philly_south"

C2_WitnessEnterRegion ==
    \E t \in Threads :
        /\ pc[t] = "store"
        /\ Len(notified[t]) = MaxCallbacks
        /\ notified[t][MaxCallbacks].args.old_region = None
        /\ notified[t][MaxCallbacks].args.new_region = "philly_south"

\* C3. The first update of a driver (no entry in driver_locations yet) never
\* enters the callback loop, whatever the detected region.
C3_FirstUpdateSilent ==
    \A t \in Threads :
        (InLockedSection(t) /\ StoredEntry(t) = << >>)
        => (pc[t] = "store" /\ idx[t] = 0 /\ notified[t] = << >>)

\* C3 witness: a first update that detected a region is about to be stored
\* while callbacks are registered.
C3_Witness ==
    \E t \in Threads :
        /\ pc[t] = "store"
        /\ StoredEntry(t) = << >>
        /\ location_update[t][1].region = "philly_north"
        /\ Len(region_transition_callbacks) = MaxCallbacks

\* The indices of the active regions whose polygon has the coordinate in its
\* interior.
RegionsContaining(latitude, longitude) ==
    { i \in 1..Len(delivery_regions) :
        /\ delivery_regions[i].is_active
        /\ Contains(delivery_regions[i].polygon, [x |-> longitude, y |-> latitude]) }

\* C4. Region containment: every stored region names a region whose polygon
\* contains the stored (longitude, latitude), and the stored region is None
\* exactly when no active region contains the stored coordinate.
C4_RegionContainment ==
    \A d \in DOMAIN driver_locations :
        LET e == driver_locations[d]
        IN  /\ e.region # None =>
                 \E i \in 1..Len(delivery_regions) :
                    /\ delivery_regions[i].name = e.region
                    /\ Contains(delivery_regions[i].polygon,
                                [x |-> e.longitude, y |-> e.latitude])
            /\ e.region = None <=> RegionsContaining(e.latitude, e.longitude) = {}

\* C4 witness: one driver stored inside a region, the other stored outside all.
C4_Witness ==
    /\ DOMAIN driver_locations = Drivers
    /\ driver_locations["d1"].region = "philly_south"
    /\ driver_locations["d2"].region = None

\* C5. Per-driver update ordering: when both threads have returned from an
\* update of the same driver, the stored entry is the whole LocationUpdate of
\* one of the two calls.
C5_PerDriverUpdateOrdering ==
    \A t1 \in Threads, t2 \in Threads :
        (/\ t1 # t2
         /\ pc[t1] = "returned" /\ pc[t2] = "returned"
         /\ location_update[t1][1].driver_id = location_update[t2][1].driver_id)
        => LET d == location_update[t1][1].driver_id
           IN  /\ d \in DOMAIN driver_locations
               /\ driver_locations[d] \in {location_update[t1][1], location_update[t2][1]}

\* C5 witness: both threads have returned from updates of d1 that differ in
\* coordinate, region and timestamp.
C5_Witness ==
    /\ pc["t1"] = "returned" /\ pc["t2"] = "returned"
    /\ location_update["t1"][1].driver_id = "d1"
    /\ location_update["t2"][1].driver_id = "d1"
    /\ location_update["t1"][1].region # location_update["t2"][1].region
    /\ location_update["t1"][1].timestamp # location_update["t2"][1].timestamp
    /\ driver_locations["d1"] = location_update["t1"][1]

\* C6. No lost updates: a call inside the locked section holds the lock alone,
\* what its transition check read is the entry the dict holds until the call
\* itself commits (the state committed by the call before it), and every
\* transition it delivers goes from that committed region to its own.
C6_NoLostUpdates ==
    \A t \in Threads :
        InLockedSection(t) =>
            /\ location_lock = t
            /\ \A u \in Threads \ {t} : ~InLockedSection(u)
            /\ old_location[t] = StoredEntry(t)
            /\ \A i \in 1..Len(notified[t]) :
                 /\ StoredEntry(t) # << >>
                 /\ notified[t][i].args.old_region = StoredEntry(t)[1].region
                 /\ notified[t][i].args.new_region = location_update[t][1].region

\* C6 witness: a call compares against the entry the other thread's call has
\* just committed for the same driver, and has delivered a transition from it.
C6_Witness ==
    \E t \in Threads, u \in Threads :
        /\ t # u
        /\ pc[t] = "store" /\ pc[u] = "returned"
        /\ old_location[t] = << location_update[u][1] >>
        /\ notified[t] # << >>

\* C7. Commit before notify: whenever a callback is called, driver_locations
\* already holds the new location of that update.
C7_CommitBeforeNotify ==
    \A t \in Threads : \A i \in 1..Len(notified[t]) :
        notified[t][i].stored = notified[t][i].args.new_location

\* Some callback call of the current update of thread t raised.
SomeCallbackRaised(t) == \E i \in 1..Len(notified[t]) : notified[t][i].raised

\* C8. Callback failure isolation: update_location never ends by raising;
\* after a callback has raised the loop goes on with the next callback, and
\* the call then stores its location and returns the success result built from
\* its own arguments.
C8_CallbackFailureIsolation ==
    /\ [](\A t \in Threads :
            /\ pc[t] # "raised"
            /\ (pc[t] = "notify" /\ SomeCallbackRaised(t)) => idx[t] = Len(notified[t]) + 1
            /\ (pc[t] = "store" /\ SomeCallbackRaised(t)) => Len(notified[t]) = loop_len[t])
    /\ [][\A t \in Threads :
            (InLockedSection(t) /\ SomeCallbackRaised(t)) =>
                \/ InLockedSection(t)'
                \/ /\ pc'[t] = "returned"
                   /\ driver_locations'[location_update[t][1].driver_id] = location_update[t][1]
                   /\ result'[t] = << success_result(location_update[t][1]) >>]_vars

\* C8 witness: the first callback raised and the second was still called.
C8_Witness ==
    \E t \in Threads :
        /\ pc[t] = "store"
        /\ Len(notified[t]) = 2
        /\ notified[t][1].raised
        /\ ~notified[t][2].raised

\* C9. Notification order: the i-th call of an update is the call of the i-th
\* registered callback, made by the updating thread; a call returns only from
\* the state in which the loop has ended with one call per registered callback.
C9_NotificationOrder ==
    /\ [](\A t \in Threads : \A i \in 1..Len(notified[t]) :
            /\ notified[t][i].position = i
            /\ notified[t][i].callback = region_transition_callbacks[i]
            /\ notified[t][i].thread = t)
    /\ [][\A t \in Threads :
            (pc[t] # "returned" /\ pc'[t] = "returned") =>
                /\ pc[t] = "store"
                /\ idx[t] > 0 => Len(notified[t]) = loop_len[t]]_vars

\* C9 witness: two different callbacks have been called in registration order
\* and the loop has ended.
C9_Witness ==
    \E t \in Threads :
        /\ pc[t] = "store"
        /\ region_transition_callbacks = << "returns", "raises" >>
        /\ Len(notified[t]) = 2
        /\ notified[t][1].callback = "returns"
        /\ notified[t][2].callback = "raises"

\* C10. update_location never blocks indefinitely: under fair scheduling
\* every call that waits for location_lock returns, and nothing but the
\* read-compare-write of the store runs under the lock, that is, no callback
\* is called while the calling thread holds location_lock.
C10_NeverBlocksIndefinitely ==
    /\ \A t \in Threads : (pc[t] = "lock") ~> (pc[t] = "returned")
    /\ [](\A t \in Threads : \A i \in 1..Len(notified[t]) :
            notified[t][i].lock_holder # t)

\* The thread is in the callback loop with a callback of the list still to
\* run: a transition callback of its request is executing or about to.
CallbackExecuting(t) ==
    pc[t] = "notify" /\ idx[t] <= Len(region_transition_callbacks)

\* C11. Updates for different drivers proceed in parallel: while a transition
\* callback for an update of one driver is executing, an update_location for
\* a different driver that has reached the with block can enter it (and so
\* commit and return) without waiting for that callback.
C11_DifferentDriversInParallel ==
    \A t \in Threads : \A u \in Threads \ {t} :
        (/\ CallbackExecuting(t)
         /\ pc[u] = "lock"
         /\ location_update[u][1].driver_id # location_update[t][1].driver_id)
        => ENABLED update_location_lock(u)

\* The thread has built the response of a POST /location-update request.
Responded(t) == request[t] # << >> /\ response[t] # << >>

\* The response says the request failed validation: a 4xx code, status "error".
ClientError(resp) == resp.code \in 400..499 /\ resp.body.status = "error"

\* The request has neither changed driver_locations nor called a callback.
NoEffect(t) ==
    /\ driver_locations = request[t][1].driver_locations
    /\ notified[t] = << >>

\* The body carries a latitude outside [-90, 90] or a longitude outside
\* [-180, 180] (hundredths of a degree).
OutOfRange(data) ==
    \/ /\ float(data.latitude)[1] = "float"
       /\ (float(data.latitude)[2] < -9000 \/ float(data.latitude)[2] > 9000)
    \/ /\ float(data.longitude)[1] = "float"
       /\ (float(data.longitude)[2] < -18000 \/ float(data.longitude)[2] > 18000)

\* The body has a string driver_id, a latitude and a longitude that convert
\* to numbers, and no timestamp or one that parses.
WellFormed(data) ==
    /\ data.driver_id[1] = "string"
    /\ float(data.latitude)[1] = "float"
    /\ float(data.longitude)[1] = "float"
    /\ missing(data, "timestamp") \/ fromisoformat(data.timestamp)[1] = "datetime"

\* C12. Out-of-range coordinates are rejected: a POST /location-update whose
\* latitude is outside [-90, 90] or whose longitude is outside [-180, 180]
\* (and whose body is well-formed otherwise) gets a validation-error
\* response, leaves driver_locations unchanged and fires no transition
\* callback.
C12_OutOfRangeRejected ==
    \A t \in Threads :
        (/\ Responded(t)
         /\ WellFormed(request[t][1].data)
         /\ OutOfRange(request[t][1].data))
        => (ClientError(response[t][1]) /\ NoEffect(t))

\* The body is malformed: a required field is missing, a latitude or longitude
\* is not a number (null or a non-numeric string), or the timestamp cannot be
\* parsed (a string that is no ISO date, or a value that is not a string).
Malformed(data) ==
    \/ \E field \in {"driver_id", "latitude", "longitude"} : missing(data, field)
    \/ data.latitude[1] \in {"string", "null"}
    \/ data.longitude[1] \in {"string", "null"}
    \/ data.timestamp[1] \in {"string", "number"}

\* C13. Every malformed POST /location-update gets a client-error (4xx)
\* response with status "error", never a server-error response and never
\* success.
C13_MalformedIsClientError ==
    \A t \in Threads :
        (Responded(t) /\ Malformed(request[t][1].data))
        => ClientError(response[t][1])

\* C14. State unchanged on error: whenever POST /location-update answers with
\* an error status (4xx or 5xx), driver_locations is exactly what it was
\* before the request and no transition callback has been invoked for it.
C14_StateUnchangedOnError ==
    \A t \in Threads :
        (Responded(t) /\ response[t][1].code >= 400) => NoEffect(t)

\* C14 witness: with a driver stored in a region and a callback registered, a
\* request that would have left the region (latitude 39.50) is answered 500
\* because update_location raised on its driver_id.
C14_Witness ==
    \E t \in Threads :
        /\ Responded(t)
        /\ response[t][1].code = 500
        /\ request[t][1].data.driver_id[1] = "array"
        /\ request[t][1].data.latitude = <<"number", 3950>>
        /\ "d1" \in DOMAIN driver_locations
        /\ driver_locations["d1"].region = "philly_north"
        /\ region_transition_callbacks # << >>

\* C14, second witness: a request answered 400 after another was stored.
C14_WitnessClientError ==
    \E t \in Threads :
        /\ Responded(t)
        /\ response[t][1].code = 400
        /\ driver_locations # << >>

\* The thread has built the result of the query method and still holds the lock.
QueryDone(t, method) ==
    pc[t] = "query_done" /\ query[t][1].method = method

\* What one committed update shows of itself in a query result.
Shown(location) ==
    [region |-> location.region, timestamp |-> isoformat(location.timestamp),
     coordinates |-> [latitude |-> location.latitude, longitude |-> location.longitude]]

\* The elements of a list.
Range(seq) == { seq[i] : i \in 1..Len(seq) }

\* C15. Consistent reads: every result of get_current_region,
\* get_all_drivers and get_drivers_in_region that runs concurrently with
\* update_location calls shows, for each driver, the region, timestamp and
\* coordinates of one single committed update, and the whole result equals
\* the store's content at one instant between two commits: the instant at
\* which the result is complete.
C15_ConsistentReads ==
    \A t \in Threads :
        /\ QueryDone(t, "get_current_region") =>
              LET r == result[t][1]
                  d == query[t][1].arg
              IN  IF d \in DOMAIN driver_locations
                  THEN /\ r.status = "success"
                       /\ r.driver_id = d
                       /\ [region |-> r.region, timestamp |-> r.timestamp,
                           coordinates |-> r.coordinates] = Shown(driver_locations[d])
                  ELSE r.status = "not_found"
        /\ QueryDone(t, "get_all_drivers") =>
              LET r == result[t][1]
              IN  /\ DOMAIN r.drivers = DOMAIN driver_locations
                  /\ \A d \in DOMAIN r.drivers : r.drivers[d] = Shown(driver_locations[d])
        /\ QueryDone(t, "get_drivers_in_region") =>
              LET r == result[t][1]
              IN  Range(r.drivers) =
                      { [driver_id |-> d,
                         timestamp |-> Shown(driver_locations[d]).timestamp,
                         coordinates |-> Shown(driver_locations[d]).coordinates] :
                        d \in { e \in DOMAIN driver_locations :
                                  driver_locations[e].region = query[t][1].arg } }

\* C15 witness: get_all_drivers has a complete result with two drivers while
\* the other thread waits for the lock with an update that moves one of them.
C15_Witness ==
    \E t \in Threads : \E u \in Threads \ {t} :
        /\ QueryDone(t, "get_all_drivers")
        /\ result[t][1].total_drivers = 2
        /\ pc[u] = "lock"
        /\ location_update[u][1].region #
               driver_locations[location_update[u][1].driver_id].region

\* C16. A query for a driver that has never had a successful update returns
\* status "not_found", sent with HTTP 404 (distinct from success, 200, and
\* from error), and the query creates no entry: no step of a query changes
\* driver_locations, so the driver is still absent from it and from the
\* tracked_drivers count.
C16_NotFoundCreatesNoEntry ==
    /\ [](\A t \in Threads :
            /\ (QueryDone(t, "get_current_region")
                  /\ query[t][1].arg \notin DOMAIN driver_locations)
               => result[t][1].status = "not_found"
            /\ (pc[t] = "responded" /\ query[t] # << >>
                  /\ query[t][1].method = "get_current_region")
               => /\ response[t][1].body.status \in {"not_found", "success"}
                  /\ response[t][1].body.status = "not_found" <=> response[t][1].code = 404
                  /\ response[t][1].body.status = "success" <=> response[t][1].code = 200)
    /\ [][\A t \in Threads :
            (query[t] # << >> \/ query'[t] # << >>) /\ pc'[t] # pc[t]
            => /\ driver_locations' = driver_locations
               /\ tracked_drivers' = tracked_drivers]_vars

\* C16 witness: the query for d1 has been answered 404 while d2 is tracked
\* and d1 is not.
C16_Witness ==
    \E t \in Threads :
        /\ pc[t] = "responded"
        /\ query[t] # << >>
        /\ query[t][1].method = "get_current_region"
        /\ query[t][1].arg = "d1"
        /\ response[t][1].code = 404
        /\ DOMAIN driver_locations = {"d2"}
        /\ tracked_drivers = 1

\* C17. get_drivers_in_region(R) returns exactly the drivers whose stored
\* region equals R, each once, and its count field equals the length of the
\* returned list.
C17_DriversInRegionExact ==
    \A t \in Threads :
        QueryDone(t, "get_drivers_in_region") =>
            LET r == result[t][1]
            IN  /\ { e.driver_id : e \in Range(r.drivers) } =
                       { d \in DOMAIN driver_locations :
                           driver_locations[d].region = query[t][1].arg }
                /\ \A i, j \in 1..Len(r.drivers) :
                       r.drivers[i].driver_id = r.drivers[j].driver_id => i = j
                /\ r.count = Len(r.drivers)
                /\ r.region = query[t][1].arg

\* C17 witness: with one driver in philly_north and one in no region,
\* get_drivers_in_region("philly_north") has returned a list of one.
C17_Witness ==
    \E t \in Threads :
        /\ QueryDone(t, "get_drivers_in_region")
        /\ query[t][1].arg = "philly_north"
        /\ result[t][1].count = 1
        /\ DOMAIN driver_locations = Drivers
        /\ \E d \in Drivers : driver_locations[d].region = None

\* The names of the configured regions.
RegionNames == { delivery_regions[i].name : i \in 1..Len(delivery_regions) }

\* The regions whose polygon contains the driver's stored coordinate.
RegionsAround(location) ==
    { delivery_regions[i].name : i \in
        { j \in 1..Len(delivery_regions) :
            Contains(delivery_regions[j].polygon,
                     Point(location.longitude, location.latitude)) } }

\* C18. Region exclusivity: each tracked driver is in the driver list of at
\* most one region, and of exactly one when its stored region is not absent;
\* a driver whose last ping was inside region A is not in
\* get_drivers_in_region(B) for any B different from A.
C18_RegionExclusivity ==
    /\ \A d \in DOMAIN driver_locations :
          LET lists == { R \in RegionNames : region_matches(driver_locations[d], R) }
          IN  /\ Cardinality(lists) <= 1
              /\ driver_locations[d].region # None => Cardinality(lists) = 1
    /\ \A t \in Threads :
          QueryDone(t, "get_drivers_in_region") =>
              \A e \in Range(result[t][1].drivers) :
                  \A A \in RegionsAround(driver_locations[e.driver_id]) :
                      A = query[t][1].arg

\* The thread has classified a coordinate: its LocationUpdate exists.
Classified(t) == location_update[t] # << >>

\* The configured regions, active or not, whose polygon contains the coordinate.
PolygonsAround(latitude, longitude) ==
    { i \in 1..Len(delivery_regions) :
        Contains(delivery_regions[i].polygon, Point(longitude, latitude)) }

\* C19. The configured delivery regions are pairwise non-overlapping: no
\* coordinate that is classified lies inside two of the ten rectangles built
\* by _initialize_regions.
C19_RegionsPairwiseDisjoint ==
    \A t \in Threads :
        Classified(t) =>
            Cardinality(PolygonsAround(location_update[t][1].latitude,
                                       location_update[t][1].longitude)) <= 1

\* C20. _detect_region returns the name of the first region, in insertion
\* order of delivery_regions, that is active and whose polygon contains the
\* point; it returns None when no active region contains it, and it never
\* returns a region whose is_active flag is false.
C20_FirstActiveRegion ==
    \A t \in Threads :
        Classified(t) =>
            LET loc  == location_update[t][1]
                here == PolygonsAround(loc.latitude, loc.longitude)
            IN  /\ loc.region = None <=>
                       \A i \in here : ~delivery_regions[i].is_active
                /\ loc.region # None =>
                       \E i \in here :
                          /\ delivery_regions[i].name = loc.region
                          /\ delivery_regions[i].is_active
                          /\ \A j \in here : j < i => ~delivery_regions[j].is_active
                /\ \A i \in 1..Len(delivery_regions) :
                       ~delivery_regions[i].is_active => loc.region # delivery_regions[i].name

\* C20 witness: philly_south is not active and a coordinate inside both
\* philly_south and philly_west has been classified as philly_west.
C20_Witness ==
    \E t \in Threads :
        /\ Classified(t)
        /\ location_update[t][1].latitude = 3996
        /\ location_update[t][1].longitude = -7521
        /\ \E i \in 1..Len(delivery_regions) :
              delivery_regions[i].name = "philly_south" /\ ~delivery_regions[i].is_active
        /\ location_update[t][1].region = "philly_west"

\* C20, second witness: all regions active, the same coordinate is classified
\* as philly_south, the earlier of the two regions.
C20_WitnessFirstOfTwo ==
    \E t \in Threads :
        /\ Classified(t)
        /\ location_update[t][1].latitude = 3996
        /\ location_update[t][1].longitude = -7521
        /\ \A i \in 1..Len(delivery_regions) : delivery_regions[i].is_active
        /\ location_update[t][1].region = "philly_south"

\* C20, third witness: the only region around the coordinate is not active
\* and the coordinate is classified as in no region.
C20_WitnessInactiveOnly ==
    \E t \in Threads :
        /\ Classified(t)
        /\ location_update[t][1].latitude = 4005
        /\ location_update[t][1].longitude = -7525
        /\ \E i \in 1..Len(delivery_regions) :
              delivery_regions[i].name = "montgomery_county" /\ ~delivery_regions[i].is_active
        /\ location_update[t][1].region = None

\* The point lies on an edge or a vertex of the rectangle: in the closed box
\* between the least and greatest vertex coordinates, on one of its sides.
OnBoundary(polygon, point) ==
    LET xs == { polygon[i][1] : i \in 1..Len(polygon) }
        ys == { polygon[i][2] : i \in 1..Len(polygon) }
    IN  /\ Min(xs) <= point.x /\ point.x <= Max(xs)
        /\ Min(ys) <= point.y /\ point.y <= Max(ys)
        /\ point.x \in {Min(xs), Max(xs)} \/ point.y \in {Min(ys), Max(ys)}

\* The regions on whose edge or vertex the coordinate lies.
RegionsTouching(latitude, longitude) ==
    { i \in 1..Len(delivery_regions) :
        OnBoundary(delivery_regions[i].polygon, Point(longitude, latitude)) }

\* C21. Boundary inclusion policy: a point exactly on an edge or vertex of a
\* region polygon is classified by one convention for all edges of all
\* regions, which is "outside": the polygon does not contain it and the point
\* is never classified as that region; and the classification is the same on
\* every call: a call at the stored coordinate gets the stored region.
C21_BoundaryInclusionPolicy ==
    \A t \in Threads :
        Classified(t) =>
            LET loc == location_update[t][1]
            IN  /\ \A i \in RegionsTouching(loc.latitude, loc.longitude) :
                      /\ ~Contains(delivery_regions[i].polygon,
                                   Point(loc.longitude, loc.latitude))
                      /\ loc.region # delivery_regions[i].name
                /\ \A d \in DOMAIN driver_locations :
                      (/\ driver_locations[d].latitude = loc.latitude
                       /\ driver_locations[d].longitude = loc.longitude)
                      => driver_locations[d].region = loc.region

\* C21 witness: the coordinate (39.98, -75.15) on the edge shared by
\* philly_north and philly_south is stored as in no region and a second call
\* at the same coordinate has classified it as in no region again.
C21_Witness ==
    \E t \in Threads :
        /\ Classified(t)
        /\ pc[t] = "lock"
        /\ location_update[t][1].latitude = 3998
        /\ location_update[t][1].longitude = -7515
        /\ location_update[t][1].region = None
        /\ RegionsTouching(3998, -7515) # {}
        /\ "d1" \in DOMAIN driver_locations
        /\ driver_locations["d1"].latitude = 3998
        /\ driver_locations["d1"].longitude = -7515
        /\ driver_locations["d1"].region = None

\* C21, second witness: a vertex of philly_north, on an edge of philly_south
\* and of philly_west, classified as in no region.
C21_WitnessVertex ==
    \E t \in Threads :
        /\ Classified(t)
        /\ location_update[t][1].latitude = 3998
        /\ location_update[t][1].longitude = -7520
        /\ Cardinality(RegionsTouching(3998, -7520)) = 3
        /\ location_update[t][1].region = None

\* C21, third witness: a point on an edge of philly_west (its top edge) that
\* is classified as a region, the one it is on no edge of.
C21_WitnessEdgeInsideOther ==
    \E t \in Threads :
        /\ Classified(t)
        /\ RegionsTouching(location_update[t][1].latitude,
                           location_update[t][1].longitude) # {}
        /\ location_update[t][1].region # None

\* C22. Write-read round trip: after update_location(D, lat, lon, t) has
\* returned, and before any other update for D commits, get_current_region(D)
\* returns the same driver_id, region, timestamp and coordinates as the
\* update's result (and the same status, "success").
C22_WriteReadRoundTrip ==
    \A t \in Threads : \A u \in Threads \ {t} :
        (/\ pc[t] = "returned"
         /\ QueryDone(u, "get_current_region")
         /\ query[u][1].arg = result[t][1].driver_id)
        => /\ result[u][1].status = "success"
           /\ result[u][1].driver_id = result[t][1].driver_id
           /\ result[u][1].region = result[t][1].region
           /\ result[u][1].timestamp = result[t][1].timestamp
           /\ result[u][1].coordinates = result[t][1].coordinates

\* C22 witness: the second update of d1 (to another region, with an older
\* timestamp than d2's) has returned and get_current_region("d1") has its
\* result, while d2 is tracked too.
C22_Witness ==
    \E t \in Threads : \E u \in Threads \ {t} :
        /\ pc[t] = "returned"
        /\ result[t][1].driver_id = "d1"
        /\ result[t][1].region = "philly_south"
        /\ result[t][1].timestamp = isoformat(1)
        /\ QueryDone(u, "get_current_region")
        /\ query[u][1].arg = "d1"
        /\ "d2" \in DOMAIN driver_locations
        /\ driver_locations["d2"].region = "philly_north"
        /\ driver_locations["d2"].timestamp = 2

\* C24. Driver state is never deleted: once an update_location for driver D
\* has committed, D stays in driver_locations in every later state, so
\* get_current_region(D) does not return not_found for it and the
\* tracked-driver count never decreases.
C24_DriverStateNeverDeleted ==
    /\ [][/\ DOMAIN driver_locations \subseteq DOMAIN driver_locations'
          /\ tracked_drivers' >= tracked_drivers]_vars
    /\ [](\A t \in Threads :
            (QueryDone(t, "get_current_region")
               /\ query[t][1].arg \in DOMAIN driver_locations)
            => result[t][1].status = "success")

\* C24 witness: updates of d1 and of d2 have committed and
\* get_current_region("d1") has its result while both are tracked.
C24_Witness ==
    \E t \in Threads :
        /\ QueryDone(t, "get_current_region")
        /\ query[t][1].arg = "d1"
        /\ result[t][1].status = "success"
        /\ tracked_drivers = 2
        /\ driver_locations["d1"].timestamp = 1
        /\ driver_locations["d2"].timestamp = 2

\* C25. One entry per driver with last-commit-wins: driver_locations holds one
\* entry per driver id, keyed by it; every commit replaces the driver's entry
\* by the committing update's coordinate, region and timestamp, whatever the
\* timestamps, and leaves the other entries alone; and the entry is what a
\* transition check in progress compares against.
C25_LastCommitWins ==
    /\ [](\A d \in DOMAIN driver_locations : driver_locations[d].driver_id = d)
    /\ [](\A t \in Threads :
            InLockedSection(t) => old_location[t] = StoredEntry(t))
    /\ [][\A t \in Threads :
            (pc[t] = "store" /\ pc'[t] = "returned") =>
                LET loc == location_update[t][1]
                IN  /\ DOMAIN driver_locations' = DOMAIN driver_locations \cup {loc.driver_id}
                    /\ driver_locations'[loc.driver_id] = loc
                    /\ \A d \in DOMAIN driver_locations \ {loc.driver_id} :
                          driver_locations'[d] = driver_locations[d]]_vars

\* C25 witness: two updates of d1 have returned, one with timestamp 2 and one
\* with the older timestamp 1 and other coordinates; the entry is the older
\* one's, which committed last.
C25_Witness ==
    \E t \in Threads : \E u \in Threads \ {t} :
        /\ pc[t] = "returned" /\ pc[u] = "returned"
        /\ location_update[u][1].timestamp = 2
        /\ location_update[t][1].timestamp = 1
        /\ location_update[u][1].latitude # location_update[t][1].latitude
        /\ driver_locations["d1"] = location_update[t][1]

\* C25, second witness: a transition check compares against an entry whose
\* timestamp is older than that of the entry it replaced: the stored entry has
\* timestamp 1 while an update with timestamp 2 has already returned.
C25_WitnessComparesAgainstOlder ==
    \E t \in Threads : \E u \in Threads \ {t} :
        /\ pc[t] = "notify"
        /\ old_location[t][1].timestamp = 1
        /\ pc[u] = "returned"
        /\ location_update[u][1].timestamp = 2
        /\ old_location[t][1] # location_update[u][1]

\* The step is the one in which thread t builds the response of GET /health.
HealthStep(t) ==
    /\ pc[t] = "idle" /\ pc'[t] = "responded"
    /\ query'[t] # << >> /\ query'[t][1].method = "health_check"

ClassifiedUnder(registry, latitude, longitude) ==
    LET hits == { i \in 1..Len(registry) :
                    /\ registry[i].is_active
                    /\ Contains(registry[i].polygon, Point(longitude, latitude)) }
    IN  IF hits = {} THEN None ELSE registry[Min(hits)].name

\* C27. Changing a region's active flag does not touch stored driver state:
\* the step that changes a flag leaves driver_locations, every thread and the
\* callback invocations as they are (no transition callback fires), and the
\* driver's next update_location classifies against the flags it finds.
C27_SetActiveKeepsDriverState ==
    /\ [][delivery_regions' # delivery_regions =>
            /\ driver_locations' = driver_locations
            /\ notified' = notified
            /\ pc' = pc
            /\ location_update' = location_update]_vars
    /\ [][\A t \in Threads :
            (location_update[t] = << >> /\ location_update'[t] # << >>) =>
                location_update'[t][1].region =
                    ClassifiedUnder(delivery_regions,
                                    location_update'[t][1].latitude,
                                    location_update'[t][1].longitude)]_vars

\* C27 witness: d1 is stored in philly_south, philly_south has been made
\* inactive since, and d1's next update at the same coordinate has been
\* classified as philly_west; a callback is registered.
C27_Witness ==
    \E t \in Threads :
        /\ "d1" \in DOMAIN driver_locations
        /\ driver_locations["d1"].region = "philly_south"
        /\ \E i \in 1..Len(delivery_regions) :
              delivery_regions[i].name = "philly_south" /\ ~delivery_regions[i].is_active
        /\ pc[t] = "lock"
        /\ location_update[t][1].driver_id = "d1"
        /\ location_update[t][1].latitude = driver_locations["d1"].latitude
        /\ location_update[t][1].longitude = driver_locations["d1"].longitude
        /\ location_update[t][1].region = "philly_west"
        /\ region_transition_callbacks # << >>

\* C27, second witness: no update is in progress, d1 is stored in
\* philly_south and philly_south is inactive: the entry was kept.
C27_WitnessStaleEntry ==
    /\ \A t \in Threads : pc[t] = "idle"
    /\ "d1" \in DOMAIN driver_locations
    /\ driver_locations["d1"].region = "philly_south"
    /\ \E i \in 1..Len(delivery_regions) :
          delivery_regions[i].name = "philly_south" /\ ~delivery_regions[i].is_active

\* The classifications the state shows, as coordinate and region: the stored
\* entries, the LocationUpdates in progress and the results sent with 200.
RegionsShown ==
    { [latitude |-> driver_locations[d].latitude,
       longitude |-> driver_locations[d].longitude,
       region |-> driver_locations[d].region] : d \in DOMAIN driver_locations }
    \cup { [latitude |-> location_update[t][1].latitude,
            longitude |-> location_update[t][1].longitude,
            region |-> location_update[t][1].region] :
           t \in { u \in Threads : location_update[u] # << >> } }
    \cup { [latitude |-> response[t][1].body.coordinates.latitude,
            longitude |-> response[t][1].body.coordinates.longitude,
            region |-> response[t][1].body.region] :
           t \in { u \in Threads : Responded(u) /\ response[u][1].code = 200 } }

\* C26. The detected region is computed, never supplied: two updates with the
\* same coordinates get the same region, stored and returned, whatever the
\* driver id, the timestamp, the driver's previous state or a "region" member
\* of the request body.
C26_RegionComputedNotSupplied ==
    \A a \in RegionsShown : \A b \in RegionsShown :
        (a.latitude = b.latitude /\ a.longitude = b.longitude) => a.region = b.region

\* C26 witness: a request for d1 at (39.99, -75.15) that names the region
\* philly_south is answered with philly_north, the region d2 has at the same
\* coordinate with another timestamp; d1 was outside every region before.
C26_Witness ==
    \E t \in Threads :
        /\ Responded(t)
        /\ response[t][1].code = 200
        /\ request[t][1].data.region = <<"string", "philly_south">>
        /\ request[t][1].data.driver_id = <<"string", "d1">>
        /\ response[t][1].body.region = "philly_north"
        /\ "d1" \in DOMAIN request[t][1].driver_locations
        /\ request[t][1].driver_locations["d1"].region = None
        /\ "d2" \in DOMAIN driver_locations
        /\ driver_locations["d2"].region = "philly_north"
        /\ driver_locations["d2"].timestamp # driver_locations["d1"].timestamp

\* A thread is at a with statement, about to acquire location_lock.
WaitingForLock(t) == pc[t] \in {"lock", "query_lock"}

\* C28. No deadlock through re-entry: a transition callback that calls an
\* operation of the same service returns and so does the update_location that
\* called it.  As a state property: no thread waits for location_lock while it
\* holds the lock itself, since nobody else can release it.
C28_NoDeadlockThroughReentry ==
    \A t \in Threads : WaitingForLock(t) => location_lock # t

\* The step is one of thread t.
StepOf(t) == pc'[t] # pc[t] \/ idx'[t] # idx[t] \/ query'[t] # query[t]

\* A step of thread t inside update_location (its first and last included).
UpdateStep(t) == StepOf(t) /\ (location_update[t] # << >> \/ location_update'[t] # << >>)

\* A step of thread t serving one of the GET routes.
ReadStep(t) == StepOf(t) /\ (query[t] # << >> \/ query'[t] # << >>)

\* C29. Frame of an update: update_location(D, ...) changes only the entry of
\* D in driver_locations; the entries of the other drivers, delivery_regions
\* and the callback list are unchanged.  get_current_region, get_all_drivers,
\* get_drivers_in_region, /health and /regions change none of the three, and
\* what such a step does to location_lock is to take it or to give it back.
C29_FrameOfUpdate ==
    [][ \A t \in Threads :
          /\ UpdateStep(t) =>
                LET D == IF location_update[t] # << >>
                         THEN location_update[t][1].driver_id
                         ELSE location_update'[t][1].driver_id
                IN  /\ delivery_regions' = delivery_regions
                    /\ region_transition_callbacks' = region_transition_callbacks
                    /\ DOMAIN driver_locations' \subseteq DOMAIN driver_locations \cup {D}
                    /\ \A d \in DOMAIN driver_locations \ {D} :
                          /\ d \in DOMAIN driver_locations'
                          /\ driver_locations'[d] = driver_locations[d]
          /\ ReadStep(t) =>
                /\ driver_locations' = driver_locations
                /\ delivery_regions' = delivery_regions
                /\ region_transition_callbacks' = region_transition_callbacks
                /\ location_lock' # location_lock =>
                      { location_lock, location_lock' } = { NoThread, t }
      ]_vars

\* C29 witness: with a callback registered and d2 tracked in another region,
\* an update of d1 has stored its entry and returned, and GET /regions has
\* been answered.
C29_Witness ==
    /\ pc["t1"] = "returned"
    /\ location_update["t1"][1].driver_id = "d1"
    /\ driver_locations["d1"] = location_update["t1"][1]
    /\ "d2" \in DOMAIN driver_locations
    /\ driver_locations["d2"].region # driver_locations["d1"].region
    /\ region_transition_callbacks # << >>
    /\ pc["t2"] = "responded"
    /\ query["t2"] # << >>
    /\ query["t2"][1].method = "get_regions"

\* Thread t is inside a with self.location_lock block, of update_location or
\* of a query method.
InWithBlock(t) == pc[t] \in {"notify", "store", "query_body", "query_done"}

\* Thread t is in no call of the service, or in one that has left its with
\* block by returning or by raising.
OutsideCall(t) == pc[t] \in {"idle", "returned", "raised", "responded"}

\* C30. The lock is always released: location_lock is held by a thread exactly
\* while that thread is inside a with block; it is free whenever no call is in
\* progress, also after a call that raised inside the block; at most one
\* thread is inside a with block.
C30_LockAlwaysReleased ==
    /\ \A t \in Threads : location_lock = t <=> InWithBlock(t)
    /\ (\A t \in Threads : OutsideCall(t)) => location_lock = NoThread
    /\ Cardinality({ t \in Threads : InWithBlock(t) }) <= 1

\* C30 witness: update_location has raised inside the with block (the lookup
\* of a driver_id that cannot be hashed), no call is in progress and the lock
\* is free.
C30_Witness ==
    /\ \E t \in Threads :
          /\ pc[t] = "raised"
          /\ location_update[t][1].driver_id = UnhashableId
    /\ \A t \in Threads : OutsideCall(t)
    /\ location_lock = NoThread

\* C30 witness: a callback has raised in a call that is about to store, while
\* the other thread waits at its with statement.
C30_WitnessCallbackRaised ==
    \E t \in Threads, u \in Threads :
        /\ pc[t] = "store"
        /\ SomeCallbackRaised(t)
        /\ location_lock = t
        /\ pc[u] \in {"lock", "query_lock"}

====
